---------------------------- MODULE Spec2Model ----------------------------
(***************************************************************************)
(* A model of piksi_tools/fileio.py: the SelectiveRepeater (a fixed window  *)
(* of PendingWrite objects, retransmission on timeout) and the FileIO       *)
(* operations read, write and readdir built on it.                          *)
(*                                                                          *)
(* Two threads run the code.  The issuing thread runs read()/write()/       *)
(* readdir(), hence send(), _wait_window_available(), _check_pending(),     *)
(* _fetch_pending_write() and flush().  The link's dispatch thread runs     *)
(* _cb() and _return_pending_write().  No lock guards the shared lists, so  *)
(* each action below is one step the interpreter performs atomically (a     *)
(* list pop or append, one attribute read or write) and the two threads     *)
(* interleave between them.                                                 *)
(*                                                                          *)
(* time.time() is read by the issuing thread only, and the code uses time   *)
(* stamps only in the difference tnow - pending_write.time.  The model      *)
(* therefore keeps the clock at the fixed value Now and lets time pass in   *)
(* the steps that read the clock: when d seconds pass, every recorded time  *)
(* stamp moves d seconds into the past (Aged).  A stamp is not moved below  *)
(* 0 = Now - (SBP_FILEIO_TIMEOUT + 1): beyond that age the comparison with  *)
(* the timeout cannot tell two stamps apart.                                *)
(* None is modelled as -1 for the numeric attributes and as the string      *)
(* "None" for `complete`.                                                   *)
(***************************************************************************)
EXTENDS Integers, Sequences, FiniteSets, TLC

\* ------------------------------------------------------------ constants
\* fileio.py:27
MAX_PAYLOAD_SIZE == 255
\* fileio.py:28 sets 40; the model runs the same code with a smaller window
\* so that a full window is reached within the bounds.
SBP_FILEIO_WINDOW_SIZE == 2
\* fileio.py:29, in seconds; the clock of the model counts whole seconds.
SBP_FILEIO_TIMEOUT == 5
\* fileio.py:30
MINIMUM_RETRIES == 3
\* fileio.py:210, the 4 of "MAX_PAYLOAD_SIZE - 4"
READ_OVERHEAD == 4
\* fileio.py:304, the 9 of "MAX_PAYLOAD_SIZE - len(filename) - 9"
WRITE_OVERHEAD == 9

\* ------------------------------------------------------------ bounds
\* FileIO._seq before the operation (random.randint in the source).
SeqStart == 0
\* Cap on the number of requests one operation creates (next_seq calls).
MaxRequests == 4
\* Longest source data handed to write().
MaxDataLen == 3
\* Longest source data handed to write() in the runs in which time passes.
MaxTimedDataLen == 2
\* Largest start offset handed to write().
MaxStartOffset == 1
\* Replies to one request that can be on their way at once (further ones are lost).
MaxInFlight == 2
\* Page requests one readdir() makes at most.
MaxPages == 3
\* Longest contents of a directory reply.
MaxPageLen == 3
\* Full chunks in the longest file read() is run on.
MaxFullChunks == 1
\* Length of the short last chunk of a file.
TailLen == 98

None == -1
NoneMsg == [sequence |-> None, offset |-> None, chunk_size |-> None, payload |-> << >>]
NoReply == [sequence |-> None, contents |-> << >>]

SlotIds == 1..SBP_FILEIO_WINDOW_SIZE
\* The bytes of a directory reply: NUL and the letter a.
NUL == 0
LetterA == 97
\* Every contents a directory reply can carry, up to MaxPageLen bytes.
Pages == UNION {[1..n -> {NUL, LetterA}] : n \in 0..MaxPageLen}
Seqs == (SeqStart + 1)..(SeqStart + MaxRequests)
\* How many seconds may pass before a step that reads the clock: none, exactly
\* the timeout, or more than the timeout.
ClockSteps(runs) == IF runs THEN {0, SBP_FILEIO_TIMEOUT, SBP_FILEIO_TIMEOUT + 1} ELSE {0}
\* What time.time() returns.
Now == SBP_FILEIO_TIMEOUT + 1

\* ------------------------------------------------------------ helpers
Min(a, b) == IF a < b THEN a ELSE b
Max(a, b) == IF a > b THEN a ELSE b

\* Python's s[start:stop] on a sequence, negative indices counted from the end.
PySlice(s, start, stop) ==
  LET n  == Len(s)
      a0 == IF start < 0 THEN Max(start + n, 0) ELSE Min(start, n)
      b0 == IF stop < 0 THEN Max(stop + n, 0) ELSE Min(stop, n)
  IN  IF a0 < b0 THEN SubSeq(s, a0 + 1, b0) ELSE << >>

\* list.index(x): the first position holding x (0 when absent).
IndexOf(s, x) ==
  IF \E i \in 1..Len(s) : s[i] = x
  THEN CHOOSE i \in 1..Len(s) : s[i] = x /\ \A j \in 1..(i - 1) : s[j] # x
  ELSE 0

\* A pop(i) that leaves the list as it was.
RemoveAtKeeps(s, i) == s

\* list.pop(i) leaves the list without its i-th element.
RemoveAt(s, i) == SubSeq(s, 1, i - 1) \o SubSeq(s, i + 1, Len(s))

\* The source data of a write: byte k of the data is the value k.
DataOf(n) == [k \in 1..n |-> k]

\* Chunk sizes write() derives in the model: filenames long enough that a few
\* bytes of data already take several requests.
MaxChunkSize == 3
FilenameLens == {MAX_PAYLOAD_SIZE - WRITE_OVERHEAD - c : c \in 0..MaxChunkSize}
\* The filename length of the runs in which time passes: write() derives chunk
\* size 2 and sends one byte of data per request.
TimedFilenameLen == MAX_PAYLOAD_SIZE - WRITE_OVERHEAD - 2

\* ------------------------------------------------------------ state
VARIABLES
  op,           \* the FileIO operation the issuing thread runs
  clockRuns,    \* whether time passes in this run (if not, nothing ever times out)
  file,         \* read(): the bytes of the file on the device
  buf,          \* read(): closure['buf']
  done,         \* read(): closure['done']
  result,       \* read(), readdir(): the returned value (<< >> before the return)
  files,        \* readdir(): the local list files
  dirRequests,  \* readdir(): the MsgFileioReadDirReq messages sent, in order
  dirPages,     \* readdir(): the contents of the replies accepted, in order
  dirReply,     \* readdir(): the local variable reply (NoReply before the first wait)
  filenameLen,  \* write(): len(filename)
  data,         \* write(): the source data
  trunc,        \* write(): the trunc argument
  offset,       \* read()/write(): the local variable offset
  seq,          \* FileIO._seq
  removeSent,   \* whether remove() has put a MsgFileioRemove on the link
  window,       \* SelectiveRepeater.window: list of PendingWrite objects (by identity)
  pending,      \* SelectiveRepeater.pending
  slot,         \* the attributes of each PendingWrite object
  link_thread,  \* SelectiveRepeater.link_thread
  cb_thread,    \* SelectiveRepeater.cb_thread
  registered,   \* whether _cb is registered on the link
  pc,           \* where the issuing thread is
  caller,       \* who called _check_pending: "send" or "flush"
  msg,          \* send(): the message being sent
  cur,          \* _fetch_pending_write(): the PendingWrite popped from the window
  chkSnap,      \* _check_pending(): the copy self.pending[:]
  chkI,         \* _check_pending(): position in the copy
  chkRetried,   \* _check_pending(): the record_retry calls this call has made
  chkTries,     \* record_retry(): the value of self.tries that += has read
  err,          \* the exception that ended the operation ("none" when none)
  cbpc,         \* where the dispatch thread is
  cbMsg,        \* _cb(): the reply being handled
  cbSnap,       \* _cb(): the copy self.pending[:]
  cbI,          \* _cb(): position in the copy
  sent,         \* per sequence number, how often the request went on the link so far;
                \* dropped when the request is invalidated (it cannot be sent again)
  net,          \* per sequence number, the replies on their way to _cb
  completions,  \* per sequence number, how many entries _cb completed for it
  cbCalls,      \* per sequence number, how often _cb called self.cb for it
  freed,        \* per sequence number, how many PendingWrite objects _cb put back into
                \* the window for it
  issued,       \* the requests in the order send() first transmitted them
  flushEntry,   \* len(pending) when flush() was called (None before)
  flushWork,    \* what flush() did: ran a retry check, slept, transmitted
  ident         \* threading.currentThread().ident at the last run of each verify

vars == << files, dirRequests, dirPages, dirReply, clockRuns, file, buf, done, result, op, filenameLen, data, trunc, offset, seq, removeSent, window, pending,
           slot, link_thread, cb_thread, registered, pc, caller, msg, cur, chkSnap,
           chkI, chkRetried, chkTries, err, cbpc, cbMsg, cbSnap, cbI, sent, net,
           completions, cbCalls, freed, issued, flushEntry, flushWork, ident >>

\* The arguments of the operation: no step changes them.
params == << op, clockRuns, file, filenameLen, data, trunc >>
\* The state of readdir().
dirVars == << files, dirRequests, dirPages, dirReply >>
\* The closure of read() and its result.
readVars == << buf, done, result >>
\* The locals of _check_pending.
chkVars == << caller, chkSnap, chkI, chkRetried, chkTries >>
\* The shared lists and objects of the SelectiveRepeater.
listVars == << window, pending, slot >>
\* The state of _cb.
cbVars == << cbpc, cbMsg, cbSnap, cbI, completions, cbCalls, freed >>

\* The thread identities threading.currentThread().ident returns.
IssuingThread == 1
DispatchThread == 2

\* A PendingWrite() fresh from its constructor: no attribute is set yet.
FreshSlot == [message |-> NoneMsg, time |-> None, tries |-> None, complete |-> "None"]

\* SelectiveRepeater.__init__ and __enter__, called from write().
InitRepeater ==
  /\ window = [i \in SlotIds |-> i]
  /\ pending = << >>
  /\ slot = [i \in SlotIds |-> FreshSlot]
  /\ link_thread = None
  /\ cb_thread = None
  /\ ident = [link |-> None, cb |-> None]
  /\ registered = FALSE
  /\ caller = "none"
  /\ msg = NoneMsg
  /\ cur = None
  /\ chkSnap = << >>
  /\ chkI = 0
  /\ chkRetried = 0
  /\ chkTries = None
  /\ err = "none"
  /\ cbpc = "idle"
  /\ cbMsg = NoReply
  /\ cbSnap = << >>
  /\ cbI = 0
  /\ sent = [s \in Seqs |-> 0]
  /\ net = [s \in Seqs |-> 0]
  /\ completions = [s \in Seqs |-> 0]
  /\ cbCalls = [s \in Seqs |-> 0]
  /\ freed = [s \in Seqs |-> 0]
  /\ issued = << >>
  /\ flushEntry = None
  /\ files = << >>
  /\ dirRequests = << >>
  /\ dirPages = << >>
  /\ dirReply = NoReply
  /\ buf = << >>
  /\ done = FALSE
  /\ result = << >>
  /\ flushWork = [checked |-> FALSE, slept |-> FALSE, transmitted |-> FALSE]

\* A call write(filename, data, offset, trunc) on a FileIO whose _seq is SeqStart.
\* Runs in which time passes take one filename (one byte of data per request),
\* up to MaxTimedDataLen bytes of data, offset 0 and trunc; runs in which nothing
\* times out take every argument.
InitWrite ==
  /\ op = "write"
  /\ file = << >>
  /\ \/ /\ clockRuns = TRUE
        /\ \E n \in 0..MaxTimedDataLen : data = DataOf(n)
        /\ filenameLen = TimedFilenameLen
        /\ offset = 0
        /\ trunc = TRUE
     \/ /\ clockRuns = FALSE
        /\ \E n \in 0..MaxDataLen : data = DataOf(n)
        /\ filenameLen \in FilenameLens
        /\ offset \in 0..MaxStartOffset
        /\ trunc \in BOOLEAN
  /\ seq = SeqStart
  /\ removeSent = FALSE
  /\ pc = "w_start"
  /\ InitRepeater


\* The file on the device: byte k is a non-zero value that depends on k.
FileOf(n) == [k \in 1..n |-> ((k - 1) % 255) + 1]

\* The file lengths read() is run on: up to MaxFullChunks full chunks, followed
\* by nothing or by a short chunk of TailLen bytes.
FileLens ==
  {k * (MAX_PAYLOAD_SIZE - READ_OVERHEAD) + r : k \in 0..MaxFullChunks, r \in {0, TailLen}}

\* A call read(filename) on a FileIO whose _seq is SeqStart.  Time passes in the
\* runs on the file of TailLen bytes only.
InitRead ==
  /\ op = "read"
  /\ \E n \in FileLens :
       /\ file = FileOf(n)
       /\ clockRuns \in IF n = TailLen THEN BOOLEAN ELSE {FALSE}
  /\ filenameLen = 0
  /\ data = << >>
  /\ offset = 0
  /\ trunc = FALSE
  /\ seq = SeqStart
  /\ removeSent = FALSE
  /\ pc = "enter"
  /\ InitRepeater

\* A call readdir(dirname) on a FileIO whose _seq is SeqStart.  readdir() uses
\* no SelectiveRepeater.
InitReaddir ==
  /\ op = "readdir"
  /\ clockRuns = FALSE
  /\ file = << >>
  /\ filenameLen = 0
  /\ data = << >>
  /\ offset = 0
  /\ trunc = FALSE
  /\ seq = SeqStart
  /\ removeSent = FALSE
  /\ pc = "d_loop"
  /\ InitRepeater

\* ------------------------------------------------------------ the link
\* self.link(m): the request goes to the device, which answers it.  The reply is
\* lost when MaxInFlight replies to this request are already on their way.
Transmit(m) ==
  /\ sent' = [sent EXCEPT ![m.sequence] = @ + 1]
  /\ net' = [net EXCEPT ![m.sequence] = Min(@ + 1, MaxInFlight)]

\* The PendingWrite objects after d more seconds: each time stamp is d older.
Aged(sl, d) ==
  [i \in SlotIds |->
     IF sl[i].time = None THEN sl[i] ELSE [sl[i] EXCEPT !.time = Max(@ - d, 0)]]

\* ------------------------------------------------------------ write()
\* write(), lines 300-301: remove the file first when trunc and offset == 0.
WriteStart ==
  /\ pc = "w_start"
  /\ removeSent' = (trunc /\ offset = 0)
  /\ pc' = "enter"
  /\ UNCHANGED << params, dirVars, readVars, chkVars, listVars, cbVars, offset, seq, msg, cur, err,
                  issued, flushEntry, flushWork, link_thread, cb_thread, registered,
                  sent, net, ident >>

\* SelectiveRepeater.__enter__: register _cb on the link.
Enter ==
  /\ pc = "enter"
  /\ registered' = TRUE
  /\ pc' = IF op = "write" THEN "w_loop" ELSE "r_loop"
  /\ UNCHANGED << params, dirVars, readVars, chkVars, listVars, cbVars, offset, seq, removeSent, msg, cur,
                  err, issued, flushEntry, flushWork, link_thread, cb_thread,
                  sent, net, ident >>

\* write(), line 304.
WriteChunkSize == MAX_PAYLOAD_SIZE - filenameLen - WRITE_OVERHEAD

\* write(), line 313: chunk = data[offset:offset + chunksize - 1].
WriteChunk == PySlice(data, offset, offset + WriteChunkSize - 1)

\* FileIO.next_seq.
NextSeq == seq + 1

\* write(), lines 308-318: test the loop condition, build the next request and
\* enter send(); or leave the loop and call flush().
WriteLoop ==
  /\ pc = "w_loop"
  /\ IF offset < Len(data)
     THEN /\ NextSeq \in Seqs
          /\ seq' = NextSeq
          /\ msg' = [sequence |-> NextSeq, offset |-> offset, chunk_size |-> None,
                     payload |-> WriteChunk]
          /\ pc' = "wait"
          /\ UNCHANGED flushEntry
     ELSE /\ pc' = "flush"
          /\ flushEntry' = Len(pending)
          /\ UNCHANGED << seq, msg >>
  /\ UNCHANGED << params, dirVars, readVars, chkVars, listVars, cbVars, offset, removeSent, cur, err,
                  issued, flushWork, link_thread, cb_thread, registered, sent, net, ident >>

\* write(), lines 320-322: offset += len(chunk), after send() returned.
WriteAdvance ==
  /\ pc = "w_advance"
  /\ offset' = offset + Len(msg.payload)
  /\ msg' = NoneMsg
  /\ pc' = "w_loop"
  /\ UNCHANGED << params, dirVars, readVars, chkVars, listVars, cbVars, seq, removeSent, cur, err,
                  issued, flushEntry, flushWork, link_thread, cb_thread,
                  registered, sent, net, ident >>

\* ------------------------------------------------------------ read()
\* read(), line 210.
ReadChunkSize == MAX_PAYLOAD_SIZE - READ_OVERHEAD

\* A loop test that does not look at closure['done'].
LoopIgnoresDone(d) == TRUE

\* read(), line 222: while not closure['done'].
LoopGoesOn(d) == ~d

\* read(), lines 222-229: while not closure['done'], build the next request and
\* enter send(); once done is seen, go on to the return statement.
ReadLoop ==
  /\ pc = "r_loop"
  /\ IF LoopGoesOn(done)
     THEN /\ NextSeq \in Seqs
          /\ seq' = NextSeq
          /\ msg' = [sequence |-> NextSeq, offset |-> offset,
                     chunk_size |-> ReadChunkSize, payload |-> << >>]
          /\ pc' = "wait"
     ELSE /\ pc' = "r_return"
          /\ UNCHANGED << seq, msg >>
  /\ UNCHANGED << params, dirVars, readVars, chkVars, listVars, cbVars, offset, removeSent, cur,
                  err, issued, flushEntry, flushWork, link_thread, cb_thread,
                  registered, sent, net, ident >>

\* read(), line 230: offset += chunksize, after send() returned.
ReadAdvance ==
  /\ pc = "r_advance"
  /\ offset' = offset + ReadChunkSize
  /\ msg' = NoneMsg
  /\ pc' = "r_loop"
  /\ UNCHANGED << params, dirVars, readVars, chkVars, listVars, cbVars, seq, removeSent, cur,
                  err, issued, flushEntry, flushWork, link_thread, cb_thread,
                  registered, sent, net, ident >>

\* read(), line 231: return bytearray(closure['buf']).
ReadReturn ==
  /\ pc = "r_return"
  /\ result' = buf
  /\ pc' = "exit"
  /\ UNCHANGED << params, dirVars, buf, done, chkVars, listVars, cbVars, offset, seq,
                  removeSent, msg, cur, err, issued, flushEntry, flushWork,
                  link_thread, cb_thread, registered, sent, net, ident >>

\* ------------------------------------------------------------ readdir()
\* A strip that removes one trailing NUL byte at most.
RStripOnce(str) ==
  IF str # << >> /\ str[Len(str)] = NUL THEN SubSeq(str, 1, Len(str) - 1) ELSE str

\* str.rstrip('\0'): the string without its trailing NUL bytes.
RECURSIVE RStrip(_)
RStrip(str) ==
  IF str # << >> /\ str[Len(str)] = NUL THEN RStrip(SubSeq(str, 1, Len(str) - 1)) ELSE str

\* str.split('\0'): the pieces between the NUL bytes (one piece more than there
\* are NUL bytes; a piece may be empty).
RECURSIVE Split(_)
Split(str) ==
  IF \E i \in 1..Len(str) : str[i] = NUL
  THEN LET i == CHOOSE j \in 1..Len(str) :
                  str[j] = NUL /\ \A k \in 1..(j - 1) : str[k] # NUL
       IN  << SubSeq(str, 1, i - 1) >> \o Split(SubSeq(str, i + 1, Len(str)))
  ELSE << str >>

\* readdir(), lines 249-252: send the request for the next page, at offset
\* len(files).
DirRequest ==
  /\ pc = "d_loop"
  /\ Len(dirRequests) < MaxPages
  /\ seq' = NextSeq
  /\ dirRequests' = Append(dirRequests, [sequence |-> NextSeq, offset |-> Len(files)])
  /\ pc' = "d_wait"
  /\ UNCHANGED << params, readVars, chkVars, listVars, cbVars, files, dirPages, dirReply, offset,
                  removeSent, msg, cur, err, issued, flushEntry, flushWork,
                  link_thread, cb_thread, registered, sent, net, ident >>

\* The comparison of line 258 left out: a reply with any sequence number is
\* taken for the reply to the request.
SeqMismatchIgnored(r, s) == FALSE

\* Line 258: reply.sequence != seq.
SeqMismatch(r, s) == r.sequence # s

\* readdir(), lines 253-263 with the reply r that self.link.wait returned
\* (NoReply when it timed out): raise on a timeout or on a reply with another
\* sequence number, return files on a chunk that is empty once its trailing
\* NULs are stripped, else append the names of the chunk and go round the loop.
DirHandle(r) ==
  /\ pc = "d_wait"
  /\ dirReply' = r
  /\ IF r = NoReply
     THEN /\ err' = "Timeout waiting for FILEIO_READ_DIR reply"
          /\ pc' = "raised"
          /\ UNCHANGED << files, dirPages, result >>
     ELSE IF SeqMismatch(r, seq)
     THEN /\ err' = "Reply FILEIO_READ_DIR doesn't match request"
          /\ pc' = "raised"
          /\ UNCHANGED << files, dirPages, result >>
     ELSE /\ dirPages' = Append(dirPages, r.contents)
          /\ IF Len(RStrip(r.contents)) = 0
             THEN /\ result' = files
                  /\ pc' = "returned"
                  /\ UNCHANGED files
             ELSE /\ files' = files \o Split(RStrip(r.contents))
                  /\ pc' = "d_loop"
                  /\ UNCHANGED result
          /\ UNCHANGED err
  /\ UNCHANGED << params, buf, done, chkVars, listVars, cbVars, dirRequests, offset,
                  seq, removeSent, msg, cur, issued, flushEntry, flushWork,
                  link_thread, cb_thread, registered, sent, net, ident >>

\* The contents of the replies that carry another sequence number: readdir()
\* raises before it looks at them.
StalePages == {<< >>, << LetterA, NUL >>}

\* What self.link.wait can return for the request just sent: nothing within the
\* wait, a reply carrying this sequence number and any contents, or a reply
\* carrying the sequence number before it.
DirReplies ==
  {NoReply} \cup [sequence : {seq}, contents : Pages]
            \cup [sequence : {seq - 1}, contents : StalePages]

DirWait == \E r \in DirReplies : DirHandle(r)

\* ------------------------------------------------------------ send()
\* The window test without the length comparison: a window is always taken to
\* hold a PendingWrite.
WindowAlwaysAvailable(w) == TRUE

\* _window_available, line 141: len(self.window) != 0.
WindowAvailable(w) == Len(w) # 0

\* _wait_window_available, line 170: the loop test.  With a PendingWrite in the
\* window send() goes on to _fetch_pending_write, else it calls _check_pending.
WaitWindow ==
  /\ pc = "wait"
  /\ IF WindowAvailable(window)
     THEN pc' = "fetch" /\ UNCHANGED caller
     ELSE pc' = "chk_begin" /\ caller' = "send"
  /\ UNCHANGED << params, dirVars, readVars, listVars, cbVars, chkSnap, chkI, chkRetried, chkTries, offset, seq,
                  removeSent, msg, cur, err, issued, flushEntry, flushWork,
                  link_thread, cb_thread, registered, sent, net, ident >>

\* _wait_window_available, lines 172-173: sleep 10 ms if the window is still
\* empty, then test the loop condition again.
WaitSleep ==
  /\ pc = "wait_sleep"
  /\ pc' = "wait"
  /\ UNCHANGED << params, dirVars, readVars, chkVars, listVars, cbVars, offset, seq, removeSent, msg, cur,
                  err, issued, flushEntry, flushWork, link_thread, cb_thread,
                  registered, sent, net, ident >>

\* A pop that returns the first element and leaves it in the list.
PopFrontKeeps(w) == w

\* list.pop(0): what is left of the list, its first element removed.
PopFront(w) == Tail(w)

\* The two threads of the program; either may be the one that runs an edge.
Threads == {IssuingThread, DispatchThread}

\* _verify_link_thread and _verify_cb_thread, the if of lines 99-100 and
\* 110-111: the first thread to run the edge is recorded.
Recorded(thread, t) == IF thread = None THEN t ELSE thread

\* An assert that lets every thread pass.
VerifiedAlways(thread, t) == TRUE

\* The assert of lines 101 and 112: the recorded thread is the current one.
Verified(thread, t) == thread = t

\* _fetch_pending_write run by thread t, lines 136-137: _verify_link_thread,
\* then self.window.pop(0), which raises IndexError on an empty list.
FetchPopBy(t) ==
  /\ pc = "fetch"
  /\ ident' = [ident EXCEPT !.link = t]
  /\ link_thread' = Recorded(link_thread, t)
  /\ IF ~Verified(link_thread', t)
     THEN /\ err' = "AssertionError" /\ pc' = "exit"
          /\ UNCHANGED << window, cur >>
     ELSE IF Len(window) = 0
     THEN /\ err' = "IndexError" /\ pc' = "exit"
          /\ UNCHANGED << window, cur >>
     ELSE /\ cur' = Head(window)
          /\ window' = PopFront(window)
          /\ pc' = "fetch_track"
          /\ UNCHANGED err
  /\ UNCHANGED << params, dirVars, readVars, chkVars, cbVars, pending, slot, offset, seq, removeSent, msg,
                  issued, flushEntry, flushWork, cb_thread, registered, sent, net >>

\* In read() and write() it is the issuing thread that calls send().
FetchPop == FetchPopBy(IssuingThread)

\* PendingWrite.track, lines 65-68: tries is set to 0 whatever the argument.
Track(m, t) == [message |-> m, time |-> t, tries |-> 0, complete |-> "False"]

\* _fetch_pending_write, line 138: track the message at time.time() and append
\* the PendingWrite to self.pending.
FetchAppend ==
  /\ pc = "fetch_track"
  /\ \E d \in ClockSteps(clockRuns) : slot' = [Aged(slot, d) EXCEPT ![cur] = Track(msg, Now)]
  /\ pending' = Append(pending, cur)
  /\ cur' = None
  /\ pc' = "send_link"
  /\ UNCHANGED << params, dirVars, readVars, chkVars, cbVars, window, offset, seq, removeSent, msg,
                  err, issued, flushEntry, flushWork, link_thread, cb_thread,
                  registered, sent, net, ident >>

\* send(), line 178: self.link(msg); then back in the caller's loop.
SendLink ==
  /\ pc = "send_link"
  /\ Transmit(msg)
  /\ issued' = Append(issued, msg)
  /\ pc' = IF op = "write" THEN "w_advance" ELSE "r_advance"
  /\ UNCHANGED << params, dirVars, readVars, chkVars, listVars, cbVars, offset, seq, removeSent, msg, cur,
                  err, flushEntry, flushWork, link_thread, cb_thread, registered, ident >>

\* ------------------------------------------------------------ _check_pending()
\* Line 159: for pending_write in self.pending[:] copies the list.
ChkBegin ==
  /\ pc = "chk_begin"
  /\ chkSnap' = pending
  /\ chkI' = 1
  /\ chkRetried' = 0
  /\ chkTries' = None
  /\ pc' = "chk_loop"
  /\ flushWork' = IF caller = "flush" THEN [flushWork EXCEPT !.checked = TRUE]
                  ELSE flushWork
  /\ UNCHANGED << params, dirVars, readVars, listVars, cbVars, caller, offset, seq, removeSent, msg,
                  cur, err, issued, flushEntry, link_thread, cb_thread,
                  registered, sent, net, ident >>

\* The PendingWrite the loop of _check_pending is at.
ChkEntry == chkSnap[chkI]

\* Lines 159-161: the loop ends and _check_pending returns to its caller, or the
\* next entry is skipped when its complete attribute is true (None is false).
ChkLoop ==
  /\ pc = "chk_loop"
  /\ IF chkI > Len(chkSnap)
     THEN /\ pc' = IF caller = "flush" THEN "flush_sleep" ELSE "wait_sleep"
          /\ caller' = "none" /\ chkSnap' = << >> /\ chkI' = 0
          /\ chkRetried' = 0 /\ chkTries' = None
     ELSE IF slot[ChkEntry].complete = "True"
     THEN /\ chkI' = chkI + 1
          /\ pc' = "chk_loop"
          /\ UNCHANGED << caller, chkSnap, chkRetried, chkTries >>
     ELSE /\ pc' = "chk_time"
          /\ UNCHANGED << caller, chkSnap, chkI, chkRetried, chkTries >>
  /\ UNCHANGED << params, dirVars, readVars, listVars, cbVars, offset, seq,
                  removeSent, msg, cur, err, issued, flushEntry, flushWork,
                  link_thread, cb_thread, registered, sent, net, ident >>

\* The test of line 163 with >= for >: a request is retried when exactly
\* SBP_FILEIO_TIMEOUT has passed.
TimedOutAtTimeout(t, sentAt) == t - sentAt >= SBP_FILEIO_TIMEOUT

\* Line 163: tnow - pending_write.time > SBP_FILEIO_TIMEOUT.
TimedOut(t, sentAt) == t - sentAt > SBP_FILEIO_TIMEOUT

\* Lines 162-163, d seconds after the last reading of the clock: read the clock
\* and compare with the entry's time; a time of None (an invalidated entry)
\* makes the subtraction raise TypeError.
ChkTimeAt(d) ==
  /\ pc = "chk_time"
  /\ slot' = Aged(slot, d)
  /\ IF slot'[ChkEntry].time = None
     THEN err' = "TypeError" /\ pc' = "exit" /\ UNCHANGED chkI
     ELSE IF TimedOut(Now, slot'[ChkEntry].time)
     THEN pc' = "chk_tries" /\ UNCHANGED << err, chkI >>
     ELSE pc' = "chk_loop" /\ chkI' = chkI + 1 /\ UNCHANGED err
  /\ UNCHANGED << params, dirVars, readVars, window, pending, cbVars, caller, chkSnap, chkRetried, chkTries, offset, seq, removeSent,
                  msg, cur, issued, flushEntry, flushWork, link_thread, cb_thread,
                  registered, sent, net, ident >>

\* Lines 162-163, any time after the last reading of the clock.
ChkTime == \E d \in ClockSteps(clockRuns) : ChkTimeAt(d)

\* The test of line 164 with > for >=: one more retry is allowed.
RetriesExhaustedLate(tries) == tries > MINIMUM_RETRIES

\* Line 164: pending_write.tries >= MINIMUM_RETRIES.
RetriesExhausted(tries) == tries >= MINIMUM_RETRIES

\* A raise that first resets the entry that ran out of retries.
AtRaiseReset(sl, e) == [sl EXCEPT ![e] = FreshSlot]

\* Line 165, raise Exception('Timed out'): the statement is the raise alone,
\* the PendingWrite objects stay as they are.
AtRaise(sl, e) == sl

\* Lines 164-165: raise 'Timed out' once the entry has been retried
\* MINIMUM_RETRIES times.  With tries None the comparison (or, where None
\* compares below every number, the += of record_retry) raises TypeError.
ChkTries ==
  /\ pc = "chk_tries"
  /\ IF slot[ChkEntry].tries = None
     THEN err' = "TypeError" /\ pc' = "exit" /\ UNCHANGED slot
     ELSE IF RetriesExhausted(slot[ChkEntry].tries)
     THEN err' = "Timed out" /\ pc' = "exit" /\ slot' = AtRaise(slot, ChkEntry)
     ELSE pc' = "chk_retry_tries" /\ UNCHANGED << err, slot >>
  /\ UNCHANGED << params, dirVars, readVars, chkVars, window, pending, cbVars, offset, seq, removeSent, msg, cur,
                  issued, flushEntry, flushWork, link_thread, cb_thread,
                  registered, sent, net, ident >>

\* PendingWrite.record_retry, line 76, self.tries += 1, first half: the
\* attribute is read and one is added to the value; on None the addition
\* raises TypeError.
RecordRetryRead ==
  /\ pc = "chk_retry_tries"
  /\ IF slot[ChkEntry].tries = None
     THEN err' = "TypeError" /\ pc' = "exit" /\ UNCHANGED chkTries
     ELSE /\ chkTries' = slot[ChkEntry].tries
          /\ pc' = "chk_retry_store"
          /\ UNCHANGED err
  /\ UNCHANGED << params, dirVars, readVars, caller, chkSnap, chkI, chkRetried, cbVars, listVars, offset, seq, removeSent,
                  msg, cur, issued, flushEntry, flushWork, link_thread,
                  cb_thread, registered, sent, net, ident >>

\* PendingWrite.record_retry, line 76, self.tries += 1, second half: the sum is
\* stored in the attribute, whatever the attribute holds by now.
RecordRetryTries ==
  /\ pc = "chk_retry_store"
  /\ slot' = [slot EXCEPT ![ChkEntry].tries = chkTries + 1]
  /\ chkRetried' = chkRetried + 1
  /\ chkTries' = None
  /\ pc' = "chk_retry_time"
  /\ UNCHANGED << params, dirVars, readVars, caller, chkSnap, chkI, cbVars, window, pending, offset, seq, removeSent,
                  msg, cur, err, issued, flushEntry, flushWork, link_thread,
                  cb_thread, registered, sent, net, ident >>

\* PendingWrite.record_retry, line 77: self.time = retry_time, the tnow that
\* _check_pending read (no clock read lies in between, so tnow is still Now).
RecordRetryTime ==
  /\ pc = "chk_retry_time"
  /\ slot' = [slot EXCEPT ![ChkEntry].time = Now]
  /\ pc' = "chk_link"
  /\ UNCHANGED << params, dirVars, readVars, chkVars, cbVars, window, pending, offset, seq, removeSent,
                  msg, cur, err, issued, flushEntry, flushWork, link_thread,
                  cb_thread, registered, sent, net, ident >>

\* Line 167: self.link(pending_write.message).  The link cannot encode None:
\* it raises (AttributeError) and nothing goes on the wire.
ChkLink ==
  /\ pc = "chk_link"
  /\ IF slot[ChkEntry].message = NoneMsg
     THEN /\ err' = "AttributeError" /\ pc' = "exit"
          /\ UNCHANGED << sent, net, chkI, flushWork >>
     ELSE /\ Transmit(slot[ChkEntry].message)
          /\ chkI' = chkI + 1
          /\ pc' = "chk_loop"
          /\ flushWork' = IF caller = "flush"
                          THEN [flushWork EXCEPT !.transmitted = TRUE]
                          ELSE flushWork
          /\ UNCHANGED err
  /\ UNCHANGED << params, dirVars, readVars, listVars, cbVars, caller, chkSnap, chkRetried, chkTries, offset, seq,
                  removeSent, msg, cur, issued, flushEntry, link_thread,
                  cb_thread, registered, ident >>

\* ------------------------------------------------------------ flush()
\* The loop test of flush() off by one: flush() stops waiting with one request
\* still pending.
FlushPendingButOne(p) == Len(p) > 1

\* The loop test of flush() always false: flush() never waits.
FlushPendingNever(p) == FALSE

\* Line 181: len(self.pending) > 0.
FlushPending(p) == Len(p) > 0

\* Lines 181-182: while len(self.pending) > 0, call _check_pending; with nothing
\* pending flush() returns and the with block of write() is left.
Flush ==
  /\ pc = "flush"
  /\ IF FlushPending(pending)
     THEN pc' = "chk_begin" /\ caller' = "flush"
     ELSE pc' = "exit" /\ UNCHANGED caller
  /\ UNCHANGED << params, dirVars, readVars, listVars, cbVars, chkSnap, chkI, chkRetried, chkTries, offset, seq,
                  removeSent, msg, cur, err, issued, flushEntry, flushWork,
                  link_thread, cb_thread, registered, sent, net, ident >>

\* Line 183: time.sleep(0.01), then the loop test again.
FlushSleep ==
  /\ pc = "flush_sleep"
  /\ flushWork' = [flushWork EXCEPT !.slept = TRUE]
  /\ pc' = "flush"
  /\ UNCHANGED << params, dirVars, readVars, chkVars, listVars, cbVars, offset, seq, removeSent, msg, cur,
                  err, issued, flushEntry, link_thread, cb_thread, registered,
                  sent, net, ident >>

\* An __exit__ that does not remove the callback: the registration stays as it
\* is.
ExitKeepsCallback(reg) == reg

\* __exit__, line 148: self.link.remove_callback(self._cb, self.msg_type); the
\* callback is registered no longer.
RemoveCallback(reg) == FALSE

\* SelectiveRepeater.__exit__: the with block is left, by a return or by an
\* exception, and _cb is removed from the link.
Exit ==
  /\ pc = "exit"
  /\ registered' = RemoveCallback(registered)
  /\ pc' = IF err = "none" THEN "returned" ELSE "raised"
  /\ UNCHANGED << params, dirVars, readVars, chkVars, listVars, cbVars, offset, seq, removeSent, msg, cur,
                  err, issued, flushEntry, flushWork, link_thread, cb_thread,
                  sent, net, ident >>

\* ------------------------------------------------------------ the device
\* The device's reply to a request: a read reply carries the bytes of the file
\* from the request's offset, at most chunk_size of them; a write reply carries
\* the sequence number only.
ReplyTo(m) ==
  [sequence |-> m.sequence,
   contents |-> IF op = "read"
                THEN PySlice(file, m.offset, m.offset + m.chunk_size)
                ELSE << >>]

\* The request send() transmitted with sequence number s.
RequestOf(s) == issued[CHOOSE i \in 1..Len(issued) : issued[i].sequence = s]

\* ------------------------------------------------------------ _cb()
\* The link hands a reply to _cb, which copies self.pending (line 151).  Every
\* transmission of a request is answered by at most one reply; replies arrive in
\* any order, or never.
Deliver(s) ==
  /\ cbpc = "idle"
  /\ registered
  /\ net[s] > 0
  /\ net' = [net EXCEPT ![s] = @ - 1]
  /\ cbMsg' = ReplyTo(RequestOf(s))
  /\ cbSnap' = pending
  /\ cbI' = 1
  /\ cbpc' = "cb_loop"
  /\ UNCHANGED << params, dirVars, readVars, chkVars, listVars, completions, cbCalls, freed, offset, seq,
                  removeSent, pc, msg, cur, err, issued, flushEntry, flushWork,
                  link_thread, cb_thread, registered, sent, ident >>

\* The PendingWrite the loop of _cb is at.
CbEntry == cbSnap[cbI]

\* The comparison of line 152 left out: every pending entry matches a reply.
MatchesAny(reply, pw) == TRUE

\* Line 152: msg.sequence == pending_write.message.sequence.
Matches(reply, pw) == reply.sequence = pw.message.sequence

\* Lines 151-153: the loop ends, or the next entry is compared with the reply.
CbLoop ==
  /\ cbpc = "cb_loop"
  /\ IF cbI > Len(cbSnap)
     THEN /\ cbpc' = "idle"
          /\ cbMsg' = NoReply /\ cbSnap' = << >> /\ cbI' = 0
     ELSE IF Matches(cbMsg, slot[CbEntry])
     THEN /\ cbpc' = IF op = "read" THEN "cb_extend" ELSE "cb_complete"
          /\ UNCHANGED << cbMsg, cbSnap, cbI >>
     ELSE /\ cbpc' = "cb_loop"
          /\ cbI' = cbI + 1
          /\ UNCHANGED << cbMsg, cbSnap >>
  /\ UNCHANGED << params, dirVars, readVars, chkVars, listVars,
                  completions, cbCalls, freed, offset, seq, removeSent, pc, msg, cur, err, issued,
                  flushEntry, flushWork, link_thread, cb_thread, registered, sent, net, ident >>

\* n zero bytes: [0] * n.
Zeros(n) == [k \in 1..n |-> 0]

\* Python's b[lo:hi] = c for a list b with lo <= len(b): the elements from lo up
\* to hi (or to the end) are replaced by c.
SliceAssign(b, lo, hi, c) == SubSeq(b, 1, lo) \o c \o SubSeq(b, Min(hi, Len(b)) + 1, Len(b))

\* The request of the entry _cb matched: the req argument of cb(req, resp).
CbReq == slot[CbEntry].message

\* read()'s cb, lines 214-215: zero-fill the buffer up to the request's offset.
CbExtend ==
  /\ cbpc = "cb_extend"
  /\ cbCalls' = [cbCalls EXCEPT ![CbReq.sequence] = @ + 1]
  /\ buf' = IF Len(buf) < CbReq.offset
            THEN buf \o Zeros(CbReq.offset - Len(buf))
            ELSE buf
  /\ cbpc' = "cb_assign"
  /\ UNCHANGED << params, dirVars, done, result, chkVars, listVars, cbMsg, cbSnap, cbI,
                  completions, freed, offset, seq, removeSent, pc, msg, cur, err, issued,
                  flushEntry, flushWork, link_thread, cb_thread, registered, sent, net, ident >>

\* read()'s cb, lines 216-217: copy the reply's contents into the buffer.
CbAssign ==
  /\ cbpc = "cb_assign"
  /\ buf' = SliceAssign(buf, CbReq.offset, CbReq.offset + Len(cbMsg.contents),
                        cbMsg.contents)
  /\ cbpc' = "cb_done"
  /\ UNCHANGED << params, dirVars, done, result, chkVars, listVars, cbMsg, cbSnap, cbI,
                  completions, cbCalls, freed, offset, seq, removeSent, pc, msg, cur, err,
                  issued, flushEntry, flushWork, link_thread, cb_thread, registered,
                  sent, net, ident >>

\* read()'s cb, lines 218-219: a reply shorter than the request's chunk_size
\* sets closure['done'].
CbDone ==
  /\ cbpc = "cb_done"
  /\ done' = IF CbReq.chunk_size # Len(cbMsg.contents) THEN TRUE ELSE done
  /\ cbpc' = "cb_complete"
  /\ UNCHANGED << params, dirVars, buf, result, chkVars, listVars, cbMsg, cbSnap, cbI,
                  completions, cbCalls, freed, offset, seq, removeSent, pc, msg, cur, err,
                  issued, flushEntry, flushWork, link_thread, cb_thread, registered,
                  sent, net, ident >>

\* Line 155: pending_write.complete = True.
CbComplete ==
  /\ cbpc = "cb_complete"
  /\ slot' = [slot EXCEPT ![CbEntry].complete = "True"]
  /\ completions' = [completions EXCEPT ![cbMsg.sequence] = @ + 1]
  /\ cbpc' = "cb_pop"
  /\ UNCHANGED << params, dirVars, readVars, chkVars, window, pending, cbMsg, cbSnap, cbI,
                  cbCalls, freed, offset, seq, removeSent, pc, msg, cur, err, issued,
                  flushEntry, flushWork, link_thread, cb_thread, registered, sent, net, ident >>

\* _return_pending_write run by thread t, lines 123-124: _verify_cb_thread,
\* then self.pending.pop(self.pending.index(pending_write)).
ReturnPopBy(t) ==
  /\ cbpc = "cb_pop"
  /\ ident' = [ident EXCEPT !.cb = t]
  /\ cb_thread' = Recorded(cb_thread, t)
  /\ IF ~Verified(cb_thread', t) \/ IndexOf(pending, CbEntry) = 0
     THEN cbpc' = "cb_raised" /\ UNCHANGED pending
     ELSE /\ pending' = RemoveAt(pending, IndexOf(pending, CbEntry))
          /\ cbpc' = "inv_message"
  /\ UNCHANGED << params, dirVars, readVars, chkVars, window, slot, cbMsg, cbSnap, cbI,
                  completions, cbCalls, freed, offset, seq, removeSent, pc, msg, cur, err,
                  issued, flushEntry, flushWork, link_thread, registered, sent, net >>

\* In read() and write() it is the dispatch thread of the link that calls _cb.
ReturnPop == ReturnPopBy(DispatchThread)

\* PendingWrite.invalidate, lines 55-58: four assignments, one step each.
InvalidateField ==
  /\ cbpc \in {"inv_message", "inv_time", "inv_tries", "inv_complete"}
  /\ slot' = [slot EXCEPT ![CbEntry] =
                CASE cbpc = "inv_message"  -> [@ EXCEPT !.message = NoneMsg]
                  [] cbpc = "inv_time"     -> [@ EXCEPT !.time = None]
                  [] cbpc = "inv_tries"    -> [@ EXCEPT !.tries = None]
                  [] cbpc = "inv_complete" -> [@ EXCEPT !.complete = "None"]]
  /\ sent' = IF cbpc = "inv_message"
             THEN [sent EXCEPT ![slot[CbEntry].message.sequence] = 0]
             ELSE sent
  /\ cbpc' = CASE cbpc = "inv_message"  -> "inv_time"
               [] cbpc = "inv_time"     -> "inv_tries"
               [] cbpc = "inv_tries"    -> "inv_complete"
               [] cbpc = "inv_complete" -> "cb_append"
  /\ UNCHANGED << params, dirVars, readVars, chkVars, window, pending, cbMsg, cbSnap, cbI,
                  completions, cbCalls, freed, offset, seq, removeSent, pc, msg, cur, err,
                  issued, flushEntry, flushWork, link_thread, cb_thread,
                  registered, net, ident >>

\* _return_pending_write, line 125: self.window.append(...); the loop of _cb
\* then goes on with the next entry of its copy.
ReturnAppend ==
  /\ cbpc = "cb_append"
  /\ window' = Append(window, CbEntry)
  /\ freed' = [freed EXCEPT ![cbMsg.sequence] = @ + 1]
  /\ cbI' = cbI + 1
  /\ cbpc' = "cb_loop"
  /\ UNCHANGED << params, dirVars, readVars, chkVars, pending, slot, cbMsg, cbSnap,
                  completions, cbCalls, offset, seq, removeSent, pc, msg, cur, err, issued,
                  flushEntry, flushWork, link_thread, cb_thread, registered, sent, net, ident >>

\* ------------------------------------------------------------ specification
\* The issuing thread inside send(): _wait_window_available, _check_pending,
\* _fetch_pending_write and the transmission.
SendStep ==
  \/ WaitWindow \/ WaitSleep \/ FetchPop \/ FetchAppend \/ SendLink
  \/ ChkBegin \/ ChkLoop \/ ChkTime \/ ChkTries \/ RecordRetryRead \/ RecordRetryTries
  \/ RecordRetryTime \/ ChkLink

\* The issuing thread in write().
WriterStep ==
  \/ WriteStart \/ Enter \/ WriteLoop \/ WriteAdvance
  \/ SendStep \/ Flush \/ FlushSleep \/ Exit

\* The issuing thread in read().
ReaderStep ==
  \/ Enter \/ ReadLoop \/ ReadAdvance \/ ReadReturn
  \/ SendStep \/ Exit

\* The issuing thread in readdir().
DirStep == DirRequest \/ DirWait

\* The dispatch thread in _cb and _return_pending_write.
DispatchStep ==
  \/ \E s \in Seqs : Deliver(s)
  \/ CbLoop \/ CbComplete \/ ReturnPop \/ InvalidateField \/ ReturnAppend

\* The dispatch thread in the callback read() hands to its SelectiveRepeater.
ReadCbStep == CbExtend \/ CbAssign \/ CbDone

IssuerStep == WriterStep \/ ReaderStep \/ DirStep

NextWrite == WriterStep \/ DispatchStep
NextRead == ReaderStep \/ DispatchStep \/ ReadCbStep

Init == InitWrite \/ InitRead \/ InitReaddir
Next == IssuerStep \/ DispatchStep \/ ReadCbStep

\* One call of write(), of read(), of readdir(); and any one of the three.
SpecWrite == InitWrite /\ [][NextWrite]_vars
SpecRead == InitRead /\ [][NextRead]_vars
SpecDir == InitReaddir /\ [][DirStep]_vars
Spec == Init /\ [][Next]_vars

\* The dispatch thread inside one call of _cb: once the link has handed it a
\* reply it runs on to the end of _return_pending_write.
CallbackStep == CbLoop \/ CbComplete \/ ReturnPop \/ InvalidateField \/ ReturnAppend

\* A call of write() or of read() in which time passes.
InitTimed == (InitWrite \/ InitRead) /\ clockRuns = TRUE

\* The two operations that run a SelectiveRepeater.
NextRepeater == WriterStep \/ ReaderStep \/ DispatchStep \/ ReadCbStep

\* The scheduling of a timed write() or read(): the issuing thread keeps
\* running (its polling loops sleep 10 ms and go on), a callback that has begun
\* runs to its end, and since every turn of a polling loop takes time,
\* _check_pending again and again reads a clock that has moved on by more than
\* SBP_FILEIO_TIMEOUT.  Nothing is assumed of the replies: each may be lost,
\* late or out of order.
FairRepeater ==
  /\ WF_vars(WriterStep \/ ReaderStep)
  /\ WF_vars(CallbackStep \/ ReadCbStep)
  /\ SF_vars(ChkTimeAt(SBP_FILEIO_TIMEOUT + 1))

\* read() with the clock stopped, its _fetch_pending_write and the
\* _return_pending_write of its callbacks each run by any of the threads.  With
\* the clock stopped no request times out, so the retry steps of
\* _check_pending past the time test are never taken.
InitThreads == InitRead /\ clockRuns = FALSE

NextThreads ==
  \/ Enter \/ ReadLoop \/ ReadAdvance \/ ReadReturn \/ Exit
  \/ WaitWindow \/ WaitSleep \/ ChkBegin \/ ChkLoop \/ ChkTime
  \/ \E t \in Threads : FetchPopBy(t)
  \/ FetchAppend \/ SendLink
  \/ \E s \in Seqs : Deliver(s)
  \/ CbLoop \/ CbComplete
  \/ \E t \in Threads : ReturnPopBy(t)
  \/ InvalidateField \/ ReturnAppend
  \/ ReadCbStep

SpecThreads == InitThreads /\ [][NextThreads]_vars

SpecFair == InitTimed /\ [][NextRepeater]_vars /\ FairRepeater

\* ------------------------------------------------------------ properties
\* _fetch_pending_write is between its pop and its append: one PendingWrite is
\* held by the issuing thread and is in neither list.
FetchInProgress == pc = "fetch_track"

\* _return_pending_write is between its pop and its append: one PendingWrite is
\* held by the dispatch thread and is in neither list.
ReturnInProgress ==
  cbpc \in {"inv_message", "inv_time", "inv_tries", "inv_complete", "cb_append"}

\* The pending entries that track the request with sequence number s.
Tracking(s) == {i \in 1..Len(pending) : slot[pending[i]].message.sequence = s}

\* The sequence numbers of the requests send() put on the link.
IssuedSeqs == {issued[i].sequence : i \in 1..Len(issued)}

\* C1: under every interleaving of the issuing thread's sends with the dispatch
\* thread's reply callbacks, the pending list never holds more entries than the
\* window capacity, and send never takes a slot from an empty window: it enters
\* _fetch_pending_write only with a PendingWrite in the window, and the pop
\* never raises IndexError.
C1_WindowBound ==
  /\ Len(pending) <= SBP_FILEIO_WINDOW_SIZE
  /\ pc = "fetch" => Len(window) > 0
  /\ err # "IndexError"

\* send() has taken a slot for a request issued after the window had been used
\* up once: the slot is one a reply callback returned.
C1_Witness ==
  /\ pc = "fetch_track"
  /\ Len(issued) >= SBP_FILEIO_WINDOW_SIZE
  /\ window = << >>
  /\ Len(pending) = SBP_FILEIO_WINDOW_SIZE - 1

\* C2 as stated: in every state, intermediate ones included, the number of
\* PendingWrite objects in the window plus the number in the pending list is
\* the window capacity.
C2_SumAtAllTimes == Len(window) + Len(pending) = SBP_FILEIO_WINDOW_SIZE

\* C2 amended: the window and the pending list together hold the capacity less
\* one PendingWrite for each move in progress (a _fetch_pending_write or a
\* _return_pending_write between its pop and its append); the sum equals the
\* capacity whenever no move is in progress, and never exceeds it.
C2_SumWithMoves ==
  Len(window) + Len(pending)
    + (IF FetchInProgress THEN 1 ELSE 0)
    + (IF ReturnInProgress THEN 1 ELSE 0) = SBP_FILEIO_WINDOW_SIZE

\* Both moves are in progress at once: two PendingWrite objects are in neither
\* list.
C2_Witness ==
  /\ FetchInProgress
  /\ ReturnInProgress
  /\ Len(window) + Len(pending) = SBP_FILEIO_WINDOW_SIZE - 2

\* C3: for every sequence number S, over the whole operation _cb completes at
\* most one pending entry for S, returns one slot to the window for each entry
\* it completed, and calls the per-chunk callback at most once, however many
\* replies carrying S arrive.  A request that was sent and is not completed is
\* tracked by exactly one pending entry, so its first reply completes exactly
\* one; once _cb is idle again a completed request is tracked by none.
C3_AtMostOnce ==
  \A s \in Seqs :
    /\ completions[s] <= 1
    /\ cbCalls[s] <= 1
    /\ freed[s] <= completions[s]
    /\ Cardinality(Tracking(s)) <= 1
    /\ (s \in IssuedSeqs /\ completions[s] = 0) => Cardinality(Tracking(s)) = 1
    /\ op = "read" => completions[s] <= cbCalls[s]
    /\ cbpc = "idle" => (freed[s] = completions[s] /\ (completions[s] = 1 => Tracking(s) = {}))

\* A further reply for a request that is already completed (it was
\* retransmitted and answered more than once) is handed to _cb while another
\* request is pending.
C3_Witness ==
  /\ op = "read"
  /\ cbpc = "cb_loop"
  /\ cbI = 1
  /\ cbSnap # << >>
  /\ completions[cbMsg.sequence] = 1
  /\ cbCalls[cbMsg.sequence] = 1
  /\ freed[cbMsg.sequence] = 1

\* C4: no request goes on the link more than 1 + MINIMUM_RETRIES times: a
\* pending entry has been sent at most once more than it has been retried, it
\* is never retried more than MINIMUM_RETRIES times, the retry path of
\* _check_pending is entered only with fewer retries than that, and a raised
\* 'Timed out' ends the operation.
C4_RetryBound ==
  /\ \A s \in Seqs : sent[s] <= 1 + MINIMUM_RETRIES
  /\ \A i \in SlotIds :
       /\ slot[i].tries <= MINIMUM_RETRIES
       /\ (slot[i].message # NoneMsg /\ slot[i].tries # None) =>
             sent[slot[i].message.sequence] <= 1 + slot[i].tries
  /\ pc \in {"chk_retry_tries", "chk_retry_store", "chk_retry_time", "chk_link"} =>
       slot[ChkEntry].tries <= MINIMUM_RETRIES
  /\ pc = "chk_retry_tries" => slot[ChkEntry].tries < MINIMUM_RETRIES
  /\ pc = "chk_retry_store" => chkTries < MINIMUM_RETRIES
  /\ err = "Timed out" => pc \in {"exit", "raised"}

\* A request was sent 1 + MINIMUM_RETRIES times, stayed unacknowledged, and its
\* next timed-out check raised 'Timed out'.
C4_Witness ==
  /\ err = "Timed out"
  /\ slot[ChkEntry].tries = MINIMUM_RETRIES
  /\ slot[ChkEntry].message # NoneMsg
  /\ sent[slot[ChkEntry].message.sequence] = 1 + MINIMUM_RETRIES

\* C5: flush() returns normally only with the pending list empty, and a flush()
\* called with nothing pending returns at once: it runs no retry check, does
\* not sleep and transmits nothing.
C5_FlushReturn ==
  /\ (op = "write" /\ err = "none" /\ pc \in {"exit", "returned"}) => pending = << >>
  /\ flushEntry = 0 =>
       /\ flushWork = [checked |-> FALSE, slept |-> FALSE, transmitted |-> FALSE]
       /\ pc \in {"flush", "exit", "returned"}

\* flush() was called with requests pending, slept, retransmitted, and has
\* returned.
C5_Witness ==
  /\ op = "write"
  /\ pc = "returned"
  /\ flushEntry > 0
  /\ flushWork.slept
  /\ flushWork.transmitted

\* C6: write() returns normally only when every request it created went on the
\* link and was completed by a matching reply; a raised 'Timed out' leaves the
\* with block as an exception, and write() never returns normally after it.
C6_WriteAcked ==
  /\ (op = "write" /\ pc = "returned") =>
       /\ err = "none"
       /\ Len(issued) = seq - SeqStart
       /\ \A i \in 1..Len(issued) : issued[i].sequence = SeqStart + i
       /\ \A s \in IssuedSeqs : completions[s] = 1
       /\ pending = << >>
  /\ (op = "write" /\ err = "Timed out") => pc \in {"exit", "raised"}
  /\ (op = "write" /\ pc = "raised") => err # "none"

\* write() returned after more requests than the window holds, each of them
\* acknowledged.
C6_Witness ==
  /\ op = "write"
  /\ pc = "returned"
  /\ Len(issued) > SBP_FILEIO_WINDOW_SIZE

\* C7 as stated: for a file whose last chunk is shorter than the chunk size,
\* whatever the order in which the replies arrive, the buffer read() returns
\* equals the bytes of the file.
C7_ReadExact ==
  (op = "read" /\ pc = "returned" /\ Len(file) % ReadChunkSize # 0) => result = file

\* The least number of chunks of c bytes that hold n bytes.
CeilDiv(n, c) == (n + c - 1) \div c

\* C8 as stated: for data of length L written from offset 0 with derived chunk
\* size c, write() issues ceil(L/c) requests, the i-th at offset (i-1)*c with c
\* bytes of payload, the last with the remainder.
C8_WriteChunks ==
  (op = "write" /\ pc = "returned" /\ WriteChunkSize > 0 /\ data # << >>
     /\ issued # << >> /\ issued[1].offset = 0) =>
    /\ Len(issued) = CeilDiv(Len(data), WriteChunkSize)
    /\ \A i \in 1..Len(issued) :
         /\ issued[i].offset = (i - 1) * WriteChunkSize
         /\ Len(issued[i].payload) =
              Min(WriteChunkSize, Len(data) - (i - 1) * WriteChunkSize)

\* The length of a page without its trailing NUL bytes: the position of its last
\* byte that is not NUL.
StrippedLen(page) ==
  IF \E i \in 1..Len(page) : page[i] # NUL
  THEN CHOOSE i \in 1..Len(page) : page[i] # NUL /\ \A j \in (i + 1)..Len(page) : page[j] = NUL
  ELSE 0

\* The positions of the NUL bytes that separate the names of a page.
Separators(page) == {i \in 1..StrippedLen(page) : page[i] = NUL}

\* The position of the k-th separator of a page; 0 stands before the first name
\* and the position after the stripped page ends the last.
Boundary(page, k) ==
  IF k = 0 THEN 0
  ELSE IF k > Cardinality(Separators(page)) THEN StrippedLen(page) + 1
  ELSE CHOOSE i \in Separators(page) :
         Cardinality({j \in Separators(page) : j < i}) = k - 1

\* The names a page carries: the bytes between consecutive separators, in order.
NamesOf(page) ==
  [k \in 1..(Cardinality(Separators(page)) + 1) |->
     SubSeq(page, Boundary(page, k - 1) + 1, Boundary(page, k) - 1)]

\* The names of the first n pages, in order.
RECURSIVE NamesUpTo(_, _)
NamesUpTo(pages, n) ==
  IF n = 0 THEN << >> ELSE NamesUpTo(pages, n - 1) \o NamesOf(pages[n])

\* C9 as stated: readdir() stops at the first reply whose contents have length
\* zero (no reply with contents stops it) and returns the names of the pages
\* before it.
C9_StopsAtZeroLength ==
  (op = "readdir" /\ pc = "returned") =>
    /\ Len(dirPages[Len(dirPages)]) = 0
    /\ result = NamesUpTo(dirPages, Len(dirPages) - 1)

\* C9 amended: readdir() requests page i with the i-th sequence number at the
\* offset equal to the number of names of pages 1..i-1, appends the
\* NUL-separated names of every page in order, and stops at the first reply
\* whose contents are empty once the trailing NUL bytes are stripped (a
\* zero-length reply, or one of NUL bytes only); it then returns the names of
\* the pages before that reply and sends no further request.
C9_Pagination ==
  op = "readdir" =>
    /\ \A i \in 1..Len(dirRequests) :
         /\ dirRequests[i].sequence = SeqStart + i
         /\ dirRequests[i].offset = Len(NamesUpTo(dirPages, i - 1))
    /\ \A j \in 1..Len(dirPages) :
         StrippedLen(dirPages[j]) = 0 <=> (pc = "returned" /\ j = Len(dirPages))
    /\ files = NamesUpTo(dirPages, IF pc = "returned" THEN Len(dirPages) - 1 ELSE Len(dirPages))
    /\ pc = "returned" => (result = files /\ Len(dirRequests) = Len(dirPages))
    /\ pc # "returned" => result = << >>

\* readdir() returned the names of two pages, the first with two names, after
\* a third reply of NUL bytes only.
C9_Witness ==
  /\ op = "readdir"
  /\ pc = "returned"
  /\ Len(dirPages) = 3
  /\ Len(NamesOf(dirPages[1])) = 2
  /\ Len(dirPages[3]) > 0
  /\ Len(result) = 3

\* C10: readdir() raises when the wait returns no reply or a reply whose
\* sequence number differs from the request just sent, and only then; it
\* returns no list in that case, whatever names it has accumulated, and the
\* failed request is the last one it sent.
C10_DirAbort ==
  op = "readdir" =>
    /\ (pc \in {"d_loop", "returned", "raised"} /\ dirRequests # << >>) =>
         (pc = "raised" <=> (dirReply = NoReply \/ dirReply.sequence # seq))
    /\ pc = "raised" =>
         /\ result = << >>
         /\ err \in {"Timeout waiting for FILEIO_READ_DIR reply",
                     "Reply FILEIO_READ_DIR doesn't match request"}
         /\ (err = "Timeout waiting for FILEIO_READ_DIR reply" <=> dirReply = NoReply)
         /\ Len(dirRequests) = Len(dirPages) + 1
    /\ pc # "raised" => err = "none"

\* readdir() raised on a reply with another sequence number after it had
\* accumulated the names of an earlier page.
C10_Witness ==
  /\ op = "readdir"
  /\ pc = "raised"
  /\ files # << >>
  /\ dirReply # NoReply
  /\ dirReply.sequence # seq

\* C11: _cb is registered on the link exactly while read() or write() is inside
\* its with block: not before __enter__, and never once the operation has
\* ended, by a return or by an exception.
C11_ListenerScope ==
  op \in {"read", "write"} =>
    (registered <=> pc \notin {"w_start", "enter", "returned", "raised"})

\* write() ended with 'Timed out' while requests were pending, and _cb is
\* registered no longer.
C11_Witness ==
  /\ op = "write"
  /\ pc = "raised"
  /\ err = "Timed out"
  /\ pending # << >>
  /\ ~registered

\* The issuing thread is inside _check_pending.
InCheck ==
  pc \in {"chk_begin", "chk_loop", "chk_time", "chk_tries", "chk_retry_tries", "chk_retry_store",
          "chk_retry_time", "chk_link"}

\* The issuing thread is inside send(): waiting for the window, in the check
\* the wait calls, fetching a PendingWrite or about to transmit.
InSend ==
  \/ pc \in {"wait", "wait_sleep", "fetch", "fetch_track", "send_link"}
  \/ InCheck /\ caller = "send"

\* The issuing thread is inside flush(): at the loop test, in the check the
\* loop calls, or asleep.
InFlush ==
  \/ pc \in {"flush", "flush_sleep"}
  \/ InCheck /\ caller = "flush"

\* C12 as stated: under the scheduling of FairRepeater a call of send() or of
\* flush() ends, and it ends by returning or by raising the timeout failure:
\* when the with block has been left by an exception, the exception is
\* 'Timed out'.
C12_ReturnsOrTimesOut ==
  pc \in {"exit", "raised"} => err \in {"none", "Timed out"}

\* What does hold under the scheduling of FairRepeater: every call of send()
\* and every call of flush() comes to an end, whatever becomes of the replies.
\* It ends by a return, by 'Timed out', or by the TypeError or AttributeError
\* that _check_pending raises on an entry _cb has invalidated under it.
SendFlushEnd ==
  /\ InSend ~> ~InSend
  /\ InFlush ~> ~InFlush
  /\ [](pc \in {"exit", "raised"} =>
          err \in {"none", "Timed out", "TypeError", "AttributeError"})

\* C13: the window list changes only by the pop of _fetch_pending_write (in
\* send, issuing thread) and the append of _return_pending_write (in _cb,
\* dispatch thread); the pending list changes only by the append of
\* _fetch_pending_write, which adds the PendingWrite just popped from the
\* window, and by the pop of _return_pending_write, which removes the entry
\* the reply matched.  No step of _check_pending or flush changes either list,
\* and no step of the dispatch thread lengthens pending.
C13_SlotMoves ==
  [][ /\ window' # window =>
           \/ /\ pc = "fetch" /\ pc' = "fetch_track"
              /\ window = << cur' >> \o window'
              /\ pending' = pending
           \/ /\ cbpc = "cb_append" /\ cbpc' = "cb_loop"
              /\ window' = Append(window, CbEntry)
              /\ pending' = pending
      /\ pending' # pending =>
           \/ /\ pc = "fetch_track" /\ pc' = "send_link"
              /\ pending' = Append(pending, cur)
              /\ window' = window
           \/ /\ cbpc = "cb_pop" /\ cbpc' = "inv_message"
              /\ Len(pending') = Len(pending) - 1
              /\ \A i \in 1..Len(pending') : pending'[i] # CbEntry
              /\ window' = window
      /\ (cbpc = "cb_pop" /\ cbpc' = "inv_message") => pending' # pending
      /\ ((InCheck \/ InFlush) /\ cbVars' = cbVars) => UNCHANGED << window, pending >>
      /\ cbVars' # cbVars => Len(pending') <= Len(pending)
    ]_vars

\* flush() is in its retry check with a request pending, after the reply
\* handler has put the PendingWrite of an earlier request back in the window.
C13_Witness ==
  /\ InCheck /\ caller = "flush"
  /\ pending # << >>
  /\ \E s \in Seqs : freed[s] = 1
  /\ window # << >>

\* C14: link_thread and cb_thread, once set, never change; a run of
\* _fetch_pending_write records the running thread when link_thread is None
\* and ends in AssertionError, the window untouched, exactly when the running
\* thread is not the recorded one; a run of _return_pending_write does the same
\* with cb_thread, the exception leaving _cb with pending untouched.
C14_ThreadRoles ==
  [][ /\ link_thread # None => link_thread' = link_thread
      /\ cb_thread # None => cb_thread' = cb_thread
      /\ (pc = "fetch" /\ pc' # pc) =>
           /\ link_thread = None => link_thread' = ident'.link
           /\ (err' = "AssertionError") <=> (link_thread' # ident'.link)
           /\ err' = "AssertionError" =>
                pc' = "exit" /\ UNCHANGED << window, pending >>
      /\ (cbpc = "cb_pop" /\ cbpc' # cbpc) =>
           /\ cb_thread = None => cb_thread' = ident'.cb
           /\ cb_thread' # ident'.cb =>
                cbpc' = "cb_raised" /\ UNCHANGED << window, pending >>
           /\ cb_thread' = ident'.cb => cbpc' = "inv_message"
    ]_vars

\* A thread other than the recorded one has run _fetch_pending_write and the
\* assertion failed; the record still names the first thread.
C14_Witness ==
  /\ err = "AssertionError"
  /\ link_thread # None
  /\ ident.link # link_thread
  /\ ident.link \in Threads
  /\ issued # << >>

\* C15: _check_pending goes on to retry an entry only when the clock it read
\* is more than SBP_FILEIO_TIMEOUT past the entry's time stamp; record_retry
\* adds exactly one to tries and sets the time stamp to that clock reading; a
\* request goes on the link a second time only at line 167, and what goes out
\* is the request send() transmitted with that sequence number (same offset),
\* the entry then counting one retry per retransmission, its time stamp the
\* current time.
C15_Retransmission ==
  [][ /\ (pc = "chk_time" /\ pc' = "chk_tries") =>
           /\ slot'[ChkEntry].time # None
           /\ Now - slot'[ChkEntry].time > SBP_FILEIO_TIMEOUT
      /\ (pc = "chk_retry_store" /\ pc' = "chk_retry_time") =>
           /\ slot'[ChkEntry].tries = chkTries + 1
           /\ slot[ChkEntry].tries # None =>
                slot'[ChkEntry].tries = slot[ChkEntry].tries + 1
           /\ \A i \in SlotIds : i # ChkEntry => slot'[i] = slot[i]
      /\ (pc = "chk_retry_time" /\ pc' = "chk_link") =>
           /\ slot'[ChkEntry].time = Now
           /\ slot'[ChkEntry].tries = slot[ChkEntry].tries
      /\ \A s \in Seqs :
           (sent[s] >= 1 /\ sent'[s] > sent[s]) =>
             /\ pc = "chk_link" /\ pc' = "chk_loop"
             /\ sent'[s] = sent[s] + 1
             /\ slot[ChkEntry].message = RequestOf(s)
             /\ slot[ChkEntry].tries = sent[s]
             /\ slot[ChkEntry].time = Now
             /\ slot' = slot
    ]_vars

\* In _check_pending, just after the second retransmission of a request.
C15_Witness ==
  /\ pc = "chk_loop"
  /\ chkI > 1
  /\ \E i \in 1..Len(pending) :
       /\ slot[pending[i]].tries = 2
       /\ slot[pending[i]].time = Now
       /\ slot[pending[i]].message # NoneMsg
       /\ sent[slot[pending[i]].message.sequence] = 3

\* The loop of read() has tested closure['done'] and found it set.
DoneObserved ==
  /\ op = "read" /\ done
  /\ pc = "r_return" \/ (pc \in {"exit", "returned"} /\ err = "none")

\* C16: when the loop test of read() finds closure['done'] set, the loop ends
\* without building a request; from then on read() creates no request, takes
\* no sequence number and puts nothing on the link, and done stays set.
C16_NoRequestAfterDone ==
  [][ /\ (pc = "r_loop" /\ done /\ pc' # pc) =>
           pc' = "r_return" /\ seq' = seq /\ issued' = issued
      /\ DoneObserved =>
           /\ issued' = issued
           /\ seq' = seq
           /\ \A s \in Seqs : sent'[s] <= sent[s]
           /\ done'
           /\ pc' \in {"r_return", "exit", "returned"}
    ]_vars

\* read() has returned after a short reply although requests it sent earlier
\* are still unanswered.
C16_Witness ==
  /\ op = "read"
  /\ pc = "returned"
  /\ done
  /\ Len(issued) >= 2
  /\ pending # << >>

\* The end position of the terminal short reply: the offset of the last chunk
\* of the file (a zero-length one when the file is a whole number of chunks)
\* plus the length of what the device returns there.
TerminalEnd ==
  LET last == (Len(file) \div ReadChunkSize) * ReadChunkSize
  IN  last + Len(PySlice(file, last, last + ReadChunkSize))

\* C17 as stated: the buffer read() returns is exactly as long as the end
\* position of the terminal short reply, whatever the order in which the
\* replies arrive, those to requests past the end of the file included.
C17_ReadLength ==
  (op = "read" /\ pc = "returned") => Len(result) = TerminalEnd

\* C18 as stated: a call of _check_pending that raises 'Timed out' has changed
\* no retry count and no time stamp.
C18_CheckLeavesState ==
  (err = "Timed out" /\ pc \in {"exit", "raised"}) => chkRetried = 0

\* C18: the step of _check_pending that raises 'Timed out' is taken on an
\* entry with MINIMUM_RETRIES retries and changes neither list, no PendingWrite
\* and nothing on the link; no step of the failing call, before or after the
\* raise, changes the window or the pending list; and the issuing thread, on
\* its way out of the with block, changes no PendingWrite.  What the failing
\* call did change are the retry counts and time stamps of the entries it
\* retried before it came to the exhausted one.
C18_RaiseLeavesState ==
  [][ /\ (pc = "chk_tries" /\ err' = "Timed out") =>
           /\ slot[ChkEntry].tries = MINIMUM_RETRIES
           /\ UNCHANGED << window, pending, slot, sent, net, chkRetried >>
      /\ (InCheck /\ cbVars' = cbVars) => UNCHANGED << window, pending >>
      /\ (err = "Timed out" /\ cbVars' = cbVars) =>
           UNCHANGED << window, pending, slot, sent, net, err >>
      /\ chkRetried' # chkRetried =>
           \/ chkRetried' = 0
           \/ /\ pc = "chk_retry_store"
              /\ chkRetried' = chkRetried + 1
              /\ slot'[ChkEntry].tries = chkTries + 1
    ]_vars

\* _check_pending has raised 'Timed out' with the window empty: every
\* PendingWrite is still in pending, the exhausted one with its
\* MINIMUM_RETRIES retries.
C18_Witness ==
  /\ pc = "exit"
  /\ err = "Timed out"
  /\ window = << >>
  /\ Len(pending) = SBP_FILEIO_WINDOW_SIZE
  /\ chkSnap = pending
  /\ slot[ChkEntry].tries = MINIMUM_RETRIES

\* _check_pending is past the complete test of line 160 and at work on an
\* entry: reading its time, its tries, recording a retry or retransmitting it.
Examining ==
  pc \in {"chk_time", "chk_tries", "chk_retry_tries", "chk_retry_store", "chk_retry_time",
          "chk_link"}

\* C19 as stated: in every interleaving, the entry _check_pending is at work
\* on has not been invalidated by the reply handler, and the check does not
\* fail on the None that invalidate() leaves in time, tries or message.
C19_CheckSkipsRecycled ==
  /\ Examining =>
       /\ slot[ChkEntry].message # NoneMsg
       /\ slot[ChkEntry].time # None
       /\ slot[ChkEntry].tries # None
       /\ slot[ChkEntry].complete # "None"
  /\ err \notin {"TypeError", "AttributeError"}

\* C20 as stated: every request write() has sent carries at least one byte of
\* the data, and each request starts where the one before it ended, at a
\* higher offset: the cursor advances with every iteration and the payloads
\* follow one another without gap or overlap.
C20_ChunksAdvance ==
  op = "write" =>
    \A i \in 1..Len(issued) :
      /\ Len(issued[i].payload) >= 1
      /\ i > 1 =>
           /\ issued[i].offset > issued[i - 1].offset
           /\ issued[i].offset = issued[i - 1].offset + Len(issued[i - 1].payload)
=============================================================================
